---- MODULE Spec2Model ----
(***************************************************************************)
(* Model of chess_editor.board: the Piece value object and the sparse,     *)
(* coordinate-keyed ChessBoard (board.py).                                 *)
(*                                                                         *)
(* A Piece instance is a record [id, piece_type, color]; id stands for the *)
(* Python object identity (a name, see NewId), so that two instances with  *)
(* equal fields are still two objects and one instance stored twice is one *)
(* object.                                                                 *)
(* The dict self.board is a function from coordinate pairs <<row, col>> to *)
(* None or a Piece instance; a coordinate outside its DOMAIN is a hole.    *)
(* The insertion order of the dict is abstracted: get_all_cells is a set.  *)
(***************************************************************************)
EXTENDS Integers, Sequences, FiniteSets, TLC

VARIABLES board, prev, held, op

vars == <<board, prev, held, op>>

(* ------------------------------ bounds --------------------------------- *)

\* how many Piece references the caller keeps in its own variables
MaxHeld == 1

(* ------------------------------ Piece ---------------------------------- *)

PieceColor == {"white", "black"}

PieceType == {"king", "queen", "rook", "bishop", "knight", "pawn"}

None == [none |-> TRUE]

\* Unicode code points of the glyphs, one-character strings as sequences
\* mutant: the black pawn is given the white pawn's glyph
SYMBOLS_collide ==
    [k \in PieceColor \X PieceType |->
        CASE k = <<"white", "king">>   -> <<9812>>
          [] k = <<"white", "queen">>  -> <<9813>>
          [] k = <<"white", "rook">>   -> <<9814>>
          [] k = <<"white", "bishop">> -> <<9815>>
          [] k = <<"white", "knight">> -> <<9816>>
          [] k = <<"white", "pawn">>   -> <<9817>>
          [] k = <<"black", "king">>   -> <<9818>>
          [] k = <<"black", "queen">>  -> <<9819>>
          [] k = <<"black", "rook">>   -> <<9820>>
          [] k = <<"black", "bishop">> -> <<9821>>
          [] k = <<"black", "knight">> -> <<9822>>
          [] k = <<"black", "pawn">>   -> <<9817>>]

SYMBOLS ==
    [k \in PieceColor \X PieceType |->
        CASE k = <<"white", "king">>   -> <<9812>>
          [] k = <<"white", "queen">>  -> <<9813>>
          [] k = <<"white", "rook">>   -> <<9814>>
          [] k = <<"white", "bishop">> -> <<9815>>
          [] k = <<"white", "knight">> -> <<9816>>
          [] k = <<"white", "pawn">>   -> <<9817>>
          [] k = <<"black", "king">>   -> <<9818>>
          [] k = <<"black", "queen">>  -> <<9819>>
          [] k = <<"black", "rook">>   -> <<9820>>
          [] k = <<"black", "bishop">> -> <<9821>>
          [] k = <<"black", "knight">> -> <<9822>>
          [] k = <<"black", "pawn">>   -> <<9823>>]

\* Piece.__init__ on a newly allocated object id
Piece(id, piece_type, color) ==
    [id |-> id, piece_type |-> piece_type, color |-> color]

\* Piece.__str__
__str__(self) == SYMBOLS[<<self.color, self.piece_type>>]

(* ---------------------------- ChessBoard ------------------------------- *)

\* ChessBoard.__init__: self.board = {}
EmptyBoard == [c \in {} |-> None]

\* self.board[(row, col)] = value
DictSet(b, row, col, value) ==
    [c \in DOMAIN b \cup {<<row, col>>} |->
        IF c = <<row, col>> THEN value ELSE b[c]]

\* del self.board[(row, col)]
DictDel(b, row, col) == [c \in DOMAIN b \ {<<row, col>>} |-> b[c]]

cell_exists(b, row, col) == <<row, col>> \in DOMAIN b

\* mutant: an existing cell is reset to empty
add_cell_reset(b, row, col) ==
    [board |-> DictSet(b, row, col, None),
     result |-> ~cell_exists(b, row, col)]

\* each mutator gives the new dict and the returned value
add_cell(b, row, col) ==
    IF ~cell_exists(b, row, col)
    THEN [board |-> DictSet(b, row, col, None), result |-> TRUE]
    ELSE [board |-> b, result |-> FALSE]

\* mutant: the cell is emptied, the key stays
remove_cell_empties(b, row, col) ==
    IF cell_exists(b, row, col)
    THEN [board |-> DictSet(b, row, col, None), result |-> TRUE]
    ELSE [board |-> b, result |-> FALSE]

remove_cell(b, row, col) ==
    IF cell_exists(b, row, col)
    THEN [board |-> DictDel(b, row, col), result |-> TRUE]
    ELSE [board |-> b, result |-> FALSE]

\* dict.get: None for a missing key
get_piece(b, row, col) ==
    IF <<row, col>> \in DOMAIN b THEN b[<<row, col>>] ELSE None

\* mutant: a missing cell is created by the assignment
set_piece_autocreate(b, row, col, piece) ==
    [board |-> DictSet(b, row, col, piece), result |-> TRUE]

\* mutant: an occupied cell is not overwritten
set_piece_skip_occupied(b, row, col, piece) ==
    IF cell_exists(b, row, col) /\ b[<<row, col>>] = None
    THEN [board |-> DictSet(b, row, col, piece), result |-> TRUE]
    ELSE [board |-> b, result |-> cell_exists(b, row, col)]

set_piece(b, row, col, piece) ==
    IF cell_exists(b, row, col)
    THEN [board |-> DictSet(b, row, col, piece), result |-> TRUE]
    ELSE [board |-> b, result |-> FALSE]

Min(S) == CHOOSE x \in S : \A y \in S : x <= y

Max(S) == CHOOSE x \in S : \A y \in S : x >= y

\* mutant: the minima and maxima start from 0 instead of from a cell
get_bounds_from_zero(b) ==
    IF DOMAIN b = {}
    THEN <<0, 0, 0, 0>>
    ELSE LET rows == {pos[1] : pos \in DOMAIN b} \cup {0}
             cols == {pos[2] : pos \in DOMAIN b} \cup {0}
         IN  <<Min(rows), Max(rows), Min(cols), Max(cols)>>

get_bounds(b) ==
    IF DOMAIN b = {}
    THEN <<0, 0, 0, 0>>
    ELSE LET rows == {pos[1] : pos \in DOMAIN b}
             cols == {pos[2] : pos \in DOMAIN b}
         IN  <<Min(rows), Max(rows), Min(cols), Max(cols)>>

get_all_cells(b) == DOMAIN b

\* mutant: the pieces are taken off, the cells stay
clear_keeps_keys(b) == [c \in DOMAIN b |-> None]

clear(b) == EmptyBoard

(* ------------------------- object allocation --------------------------- *)

\* identities of the Piece objects that are still referenced, by the dict or
\* by the caller's variables
IdsOf(b, refs) ==
    {b[c].id : c \in {d \in DOMAIN b : b[d] # None}} \cup {p.id : p \in refs}

\* identity of a newly constructed object. Which identity an object gets is
\* not observable beyond its being different from that of every live object,
\* so an object is named after the place it is constructed for (site: the
\* cell <<row, col>> of the assignment or call, <<>> for a variable of the
\* caller), followed by the least serial number that makes the name unused
\* when the plain name is taken
NewId(site, used) ==
    IF site \notin used
    THEN site
    ELSE site \o <<Min({n \in 0..Cardinality(used) :
                           (site \o <<n>>) \notin used})>>

\* Objects that nothing references any more are gone when a call has returned,
\* and the names of the others carry no information beyond which references
\* are to the same object. Canon renames the live objects: an object on the
\* board is named after the first cell that holds it, an object that only the
\* caller holds gets a serial number. Kinds, colours and the sharing of
\* objects among the cells and the caller are as before. (An object not named
\* after the cell it is in is the only kind that can need a new name.)
CellBefore(c, d) == c[1] < d[1] \/ (c[1] = d[1] /\ c[2] < d[2])

FirstCell(cells) ==
    CHOOSE c \in cells : \A d \in cells : d = c \/ CellBefore(c, d)

Canon(b, refs) ==
    LET moved == {b[c] : c \in {d \in DOMAIN b : b[d] # None /\ b[d].id # d}}
        holders(p) == {d \in DOMAIN b : b[d] = p}
        own == {p \in refs : holders(p) = {}}
        serial == CHOOSE f \in [own -> 0..(Cardinality(own) - 1)] :
                      \A p \in own : \A q \in own : p # q => f[p] # f[q]
        names == [p \in moved \cup refs |->
                    IF p \in own THEN <<serial[p]>> ELSE FirstCell(holders(p))]
        renamed(p) == IF p \in DOMAIN names
                      THEN [p EXCEPT !.id = names[p]]
                      ELSE p
    IN  [board |-> [c \in DOMAIN b |-> renamed(b[c])],
         held |-> {renamed(p) : p \in refs}]

(* --------------------------- setup routines ---------------------------- *)

range(n) == 0..(n - 1)

\* for ... : self.board[(row, col)] = None, over the cells of a loop nest
FillNone(b, cells) ==
    [c \in DOMAIN b \cup cells |-> IF c \in cells THEN None ELSE b[c]]

\* mutant: king and queen swapped
back_row_swapped ==
    <<"rook", "knight", "bishop", "king", "queen", "bishop", "knight", "rook">>

back_row ==
    <<"rook", "knight", "bishop", "queen", "king", "bishop", "knight", "rook">>

\* mutant: one Piece object per column, put on both of its cells
RECURSIVE RankWrites_alias(_, _, _, _, _)
RankWrites_alias(col, back, pawn, color, used) ==
    IF col >= 8
    THEN <<>>
    ELSE LET id1 == NewId(<<back, col>>, used)
             p == Piece(id1, "pawn", color)
         IN  <<<<back, col, p>>, <<pawn, col, p>>>>
             \o RankWrites_alias(col + 1, back, pawn, color, used \cup {id1})

\* for col, piece_type in enumerate(back_row): the assignments of the loop
\* from column col on, in program order, as <<row, col, piece>>; every Piece
\* is a new object, so used grows by its identity
RECURSIVE RankWrites(_, _, _, _, _)
RankWrites(col, back, pawn, color, used) ==
    IF col >= Len(back_row)
    THEN <<>>
    ELSE LET id1 == NewId(<<back, col>>, used)
             id2 == NewId(<<pawn, col>>, used \cup {id1})
         IN  <<<<back, col, Piece(id1, back_row[col + 1], color)>>,
               <<pawn, col, Piece(id2, "pawn", color)>>>>
             \o RankWrites(col + 1, back, pawn, color, used \cup {id1, id2})

\* a sequence of assignments self.board[(row, col)] = piece; the last
\* assignment to a key is the one that stays
DictUpdate(b, writes) ==
    LET hits(c) == {i \in 1..Len(writes) : <<writes[i][1], writes[i][2]>> = c}
        keys == {<<writes[i][1], writes[i][2]>> : i \in 1..Len(writes)}
    IN  [c \in DOMAIN b \cup keys |->
            IF hits(c) # {} THEN writes[Max(hits(c))][3] ELSE b[c]]

setup_standard_position(b, refs) ==
    LET b0 == clear(b)
        b1 == FillNone(b0, range(8) \X range(8))
        live == IdsOf(b0, refs)
        black == RankWrites(0, 0, 1, "black", live)
        white == RankWrites(0, 7, 6, "white",
                            live \cup {black[i][3].id : i \in 1..Len(black)})
    IN  DictUpdate(b1, black \o white)

\* mutant: the right-hand blocks start one column late
InCorner_late(row, col) ==
    \/ row < 3 /\ col < 3
    \/ row < 3 /\ col > 6
    \/ row > 5 /\ col < 3
    \/ row > 5 /\ col > 6

\* the condition of the "continue" that leaves the corner holes
InCorner(row, col) ==
    \/ row < 3 /\ col < 3
    \/ row < 3 /\ col > 5
    \/ row > 5 /\ col < 3
    \/ row > 5 /\ col > 5

\* self.board[(row, col)] = Piece(piece_type, color), a new object
PlaceNew(b, row, col, piece_type, color, refs) ==
    DictSet(b, row, col,
            Piece(NewId(<<row, col>>, IdsOf(b, refs)), piece_type, color))

setup_irregular_example(b, refs) ==
    LET b0 == clear(b)
        b1 == FillNone(b0, {c \in range(9) \X range(9) : ~InCorner(c[1], c[2])})
        b2 == PlaceNew(b1, 4, 4, "king", "white", refs)
        b3 == PlaceNew(b2, 0, 4, "queen", "black", refs)
        b4 == PlaceNew(b3, 8, 4, "queen", "white", refs)
        b5 == PlaceNew(b4, 4, 0, "rook", "black", refs)
    IN  PlaceNew(b5, 4, 8, "rook", "white", refs)

(* ------------------------------ inputs --------------------------------- *)

\* coordinates the caller addresses: a negative one outside every setup, a
\* corner (occupied in the standard position, a hole of the cross) and an arm
\* tip of the cross that lies outside the 8x8 grid
EditCoords == {<<-1, -2>>, <<0, 0>>, <<8, 4>>}

\* (piece_type, color) of the pieces the caller constructs
CallerKinds == {<<"king", "white">>, <<"queen", "black">>}

(* ------------------------------ actions -------------------------------- *)

\* no call is in progress: the caller is between two statements
Idle == [name |-> "idle"]

\* board = ChessBoard()
Init ==
    /\ board = EmptyBoard
    /\ prev = EmptyBoard
    /\ held = {}
    /\ op = Idle

\* p = Piece(piece_type, color), the caller keeping the reference
Construct(piece_type, color) ==
    /\ op = Idle
    /\ Cardinality(held) < MaxHeld
    /\ LET p == Piece(NewId(<<>>, IdsOf(board, held)), piece_type, color)
       IN  /\ held' = held \cup {p}
           /\ op' = [name |-> "Piece", piece |-> p]
    /\ prev' = board
    /\ UNCHANGED board

AddCell(row, col) ==
    /\ op = Idle
    /\ LET r == add_cell(board, row, col)
       IN  /\ board' = r.board
           /\ prev' = board
           /\ op' = [name |-> "add_cell", row |-> row, col |-> col,
                     result |-> r.result]
           /\ UNCHANGED held

RemoveCell(row, col) ==
    /\ op = Idle
    /\ LET r == remove_cell(board, row, col)
       IN  /\ board' = r.board
           /\ prev' = board
           /\ op' = [name |-> "remove_cell", row |-> row, col |-> col,
                     result |-> r.result]
           /\ UNCHANGED held

\* board.get_piece(row, col); with keep the caller binds the returned Piece to
\* a variable of its own (p = board.get_piece(row, col)), without it the
\* result is only looked at
GetPiece(row, col, keep) ==
    /\ op = Idle
    /\ LET got == get_piece(board, row, col)
       IN  /\ op' = [name |-> "get_piece", row |-> row, col |-> col,
                     result |-> got]
           /\ IF keep
              THEN /\ got # None
                   /\ got \notin held
                   /\ Cardinality(held) < MaxHeld
                   /\ held' = held \cup {got}
              ELSE UNCHANGED held
    /\ prev' = board
    /\ UNCHANGED board

CellExists(row, col) ==
    /\ op = Idle
    /\ op' = [name |-> "cell_exists", row |-> row, col |-> col,
              result |-> cell_exists(board, row, col)]
    /\ prev' = board
    /\ UNCHANGED <<board, held>>

\* what the caller can pass to set_piece without constructing anything: None,
\* a Piece it holds, or the Piece a nested board.get_piece(row2, col2) returns
PieceArgs ==
    {None} \cup held \cup {get_piece(board, c[1], c[2]) : c \in EditCoords}

\* board.set_piece(row, col, piece); the caller's own references stay as they
\* are
SetPiece(row, col, piece) ==
    /\ op = Idle
    /\ LET r == set_piece(board, row, col, piece)
       IN  /\ board' = r.board
           /\ prev' = board
           /\ op' = [name |-> "set_piece", row |-> row, col |-> col,
                     piece |-> piece, result |-> r.result]
           /\ UNCHANGED held

\* board.set_piece(row, col, Piece(piece_type, color)): the argument is a new
\* object built in the call, and the caller keeps no reference to it
SetNewPiece(row, col, piece_type, color) ==
    /\ op = Idle
    /\ LET p == Piece(NewId(<<row, col>>, IdsOf(board, held)),
                      piece_type, color)
           r == set_piece(board, row, col, p)
       IN  /\ board' = r.board
           /\ prev' = board
           /\ op' = [name |-> "set_piece", row |-> row, col |-> col,
                     piece |-> p, result |-> r.result]
           /\ UNCHANGED held

\* del p, or p going out of scope: the caller gives up a reference
Discard(p) ==
    /\ op = Idle
    /\ p \in held
    /\ LET live == Canon(board, held \ {p})
       IN  /\ board' = live.board
           /\ prev' = live.board
           /\ held' = live.held
    /\ UNCHANGED op

\* str(piece) on a Piece the caller holds
Str(self) ==
    /\ op = Idle
    /\ op' = [name |-> "__str__", self |-> self, result |-> __str__(self)]
    /\ prev' = board
    /\ UNCHANGED <<board, held>>

GetBounds ==
    /\ op = Idle
    /\ op' = [name |-> "get_bounds", result |-> get_bounds(board)]
    /\ prev' = board
    /\ UNCHANGED <<board, held>>

GetAllCells ==
    /\ op = Idle
    /\ op' = [name |-> "get_all_cells", result |-> get_all_cells(board)]
    /\ prev' = board
    /\ UNCHANGED <<board, held>>

Clear ==
    /\ op = Idle
    /\ board' = clear(board)
    /\ prev' = board
    /\ op' = [name |-> "clear"]
    /\ UNCHANGED held

SetupStandard ==
    /\ op = Idle
    /\ board' = setup_standard_position(board, held)
    /\ prev' = board
    /\ op' = [name |-> "setup_standard_position"]
    /\ UNCHANGED held

SetupIrregular ==
    /\ op = Idle
    /\ board' = setup_irregular_example(board, held)
    /\ prev' = board
    /\ op' = [name |-> "setup_irregular_example"]
    /\ UNCHANGED held

\* the call returns and the caller goes on to its next statement; until then
\* prev and op record the call (the dict before it, its arguments and its
\* result). The objects the call dropped are gone
Return ==
    /\ op # Idle
    /\ op' = Idle
    /\ LET live == Canon(board, held)
       IN  /\ board' = live.board
           /\ prev' = live.board
           /\ held' = live.held

Next ==
    \/ Return
    \/ \E k \in CallerKinds : Construct(k[1], k[2])
    \/ \E c \in EditCoords : AddCell(c[1], c[2])
    \/ \E c \in EditCoords : RemoveCell(c[1], c[2])
    \/ \E p \in held : Discard(p)
    \/ \E c \in EditCoords : \E keep \in BOOLEAN : GetPiece(c[1], c[2], keep)
    \/ \E c \in EditCoords : CellExists(c[1], c[2])
    \/ \E c \in EditCoords : \E p \in PieceArgs : SetPiece(c[1], c[2], p)
    \/ \E c \in EditCoords : \E k \in CallerKinds :
          SetNewPiece(c[1], c[2], k[1], k[2])
    \/ \E p \in held : Str(p)
    \/ GetBounds
    \/ GetAllCells
    \/ Clear
    \/ SetupStandard
    \/ SetupIrregular

Spec == Init /\ [][Next]_vars

(* main(), Example 3: the diagonal board, built call by call. Every call adds *)
(* a cell or a piece, so the number of cells and of pieces tells how far the  *)
(* script has got                                                             *)

\* for i in range(7): add_cell(i, i); add_cell(i, i + 1); add_cell(i + 1, i)
MainCells ==
    [k \in 1..(3 * 7) |->
        LET i == (k - 1) \div 3
        IN  CASE (k - 1) % 3 = 0 -> <<i, i>>
              [] (k - 1) % 3 = 1 -> <<i, i + 1>>
              [] (k - 1) % 3 = 2 -> <<i + 1, i>>]

\* set_piece(0, 0, Piece(KING, WHITE)), set_piece(3, 3, Piece(QUEEN, BLACK)),
\* set_piece(6, 6, Piece(KING, BLACK))
MainPieces ==
    <<<<0, 0, "king", "white">>, <<3, 3, "queen", "black">>,
      <<6, 6, "king", "black">>>>

MainNext ==
    \/ Return
    \/ \E k \in DOMAIN MainCells :
          /\ Cardinality(DOMAIN board) = k - 1
          /\ AddCell(MainCells[k][1], MainCells[k][2])
    \/ \E k \in DOMAIN MainPieces :
          /\ Cardinality(DOMAIN board) = Len(MainCells)
          /\ Cardinality({c \in DOMAIN board : board[c] # None}) = k - 1
          /\ SetNewPiece(MainPieces[k][1], MainPieces[k][2],
                         MainPieces[k][3], MainPieces[k][4])

MainSpec == Init /\ [][MainNext]_vars

(* Piece alone: two Piece objects of any two (color, piece_type) pairs of the *)
(* enumerations, and str() applied to either                                  *)

SymInit ==
    /\ board = EmptyBoard
    /\ prev = EmptyBoard
    /\ op = Idle
    /\ \E k1 \in PieceColor \X PieceType : \E k2 \in PieceColor \X PieceType :
          held = {Piece(<<0>>, k1[2], k1[1]), Piece(<<1>>, k2[2], k2[1])}

SymNext ==
    \/ \E p \in held : Str(p)
    \/ Return

SymSpec == SymInit /\ [][SymNext]_vars

(* ------------------------------ claims --------------------------------- *)

\* coordinates the properties quantify over: the ones addressed, the ranges
\* of both setups, and whatever exists before or after the last call
AllCoords ==
    EditCoords \cup (range(9) \X range(9)) \cup DOMAIN prev \cup DOMAIN board

IsKind(p, piece_type, color) ==
    p # None /\ p.piece_type = piece_type /\ p.color = color

\* every cell other than c exists after the call iff it did before, with the
\* same content
OthersUnchanged(c) ==
    \A d \in AllCoords \ {c} :
        /\ d \in DOMAIN board <=> d \in DOMAIN prev
        /\ d \in DOMAIN board => board[d] = prev[d]

\* C1: set_piece on a hole (negative coordinates included), with a piece or
\* with None, returns False and leaves the board as it was: same cells, same
\* contents, and the addressed coordinate is not created.
C1_SetPieceOnHoleRejected ==
    (op.name = "set_piece" /\ <<op.row, op.col>> \notin DOMAIN prev) =>
        /\ op.result = FALSE
        /\ get_all_cells(board) = get_all_cells(prev)
        /\ \A c \in DOMAIN prev : board[c] = prev[c]
        /\ ~cell_exists(board, op.row, op.col)

C1_Witness ==
    /\ op.name = "set_piece"
    /\ <<op.row, op.col>> \notin DOMAIN prev
    /\ op.row < 0
    /\ op.piece # None
    /\ \E c \in DOMAIN prev : prev[c] # None

\* C2: add_cell returns True exactly when the coordinate was a hole, and then
\* the cell exists and is empty and nothing else changed; on an existing cell
\* it returns False and the whole board, the occupancy of that cell included,
\* is unchanged. A second add_cell on the same coordinate returns False and
\* changes nothing.
C2_AddCellIdempotent ==
    op.name = "add_cell" =>
        LET c == <<op.row, op.col>>
            again == add_cell(board, op.row, op.col)
        IN  /\ op.result = (c \notin DOMAIN prev)
            /\ cell_exists(board, op.row, op.col)
            /\ op.result => get_piece(board, op.row, op.col) = None
            /\ ~op.result => board = prev
            /\ OthersUnchanged(c)
            /\ again.result = FALSE
            /\ again.board = board

C2_Witness ==
    /\ op.name = "add_cell"
    /\ op.result = FALSE
    /\ prev[<<op.row, op.col>>] # None
    /\ \E c \in EditCoords : c \notin DOMAIN prev

\* C3: remove_cell returns True exactly when the cell existed; afterwards the
\* coordinate is a hole and get_piece gives None; a later add_cell gives an
\* empty cell, not the old piece; every other cell keeps existence and content.
C3_RemoveCellDiscards ==
    op.name = "remove_cell" =>
        LET c == <<op.row, op.col>>
        IN  /\ op.result = (c \in DOMAIN prev)
            /\ ~cell_exists(board, op.row, op.col)
            /\ get_piece(board, op.row, op.col) = None
            /\ add_cell(board, op.row, op.col).result = TRUE
            /\ add_cell(board, op.row, op.col).board[c] = None
            /\ OthersUnchanged(c)

C3_Witness ==
    /\ op.name = "remove_cell"
    /\ op.result = TRUE
    /\ prev[<<op.row, op.col>>] # None
    /\ \E d \in DOMAIN board : board[d] # None

\* C4: set_piece on an existing cell, empty or occupied, returns True; then
\* get_piece gives a piece of the same (piece_type, color) as the argument, or
\* None for a None argument with the cell still existing; the set of cells and
\* every other cell's content are unchanged.
C4_SetPieceRoundTrip ==
    (op.name = "set_piece" /\ <<op.row, op.col>> \in DOMAIN prev) =>
        LET got == get_piece(board, op.row, op.col)
        IN  /\ op.result = TRUE
            /\ cell_exists(board, op.row, op.col)
            /\ op.piece = None => got = None
            /\ op.piece # None =>
                  IsKind(got, op.piece.piece_type, op.piece.color)
            /\ get_all_cells(board) = get_all_cells(prev)
            /\ OthersUnchanged(<<op.row, op.col>>)

C4_Witness ==
    /\ op.name = "set_piece"
    /\ <<op.row, op.col>> \in DOMAIN prev
    /\ op.piece # None
    /\ prev[<<op.row, op.col>>] # None
    /\ ~IsKind(prev[<<op.row, op.col>>], op.piece.piece_type, op.piece.color)

\* C5: in every state get_bounds is (0,0,0,0) when no cell exists and
\* otherwise the tightest (min row, max row, min col, max col) box around the
\* existing coordinates: every cell lies inside and each side is touched by a
\* cell; it is the same whatever the cells hold, it is what the get_bounds
\* call returns, and it is (0,7,0,7) after setup_standard_position.
C5_BoundsExact ==
    LET bd == get_bounds(board)
    IN  /\ DOMAIN board = {} => bd = <<0, 0, 0, 0>>
        /\ DOMAIN board # {} =>
              /\ \A c \in DOMAIN board :
                    bd[1] <= c[1] /\ c[1] <= bd[2] /\ bd[3] <= c[2] /\ c[2] <= bd[4]
              /\ \E c \in DOMAIN board : c[1] = bd[1]
              /\ \E c \in DOMAIN board : c[1] = bd[2]
              /\ \E c \in DOMAIN board : c[2] = bd[3]
              /\ \E c \in DOMAIN board : c[2] = bd[4]
        /\ get_bounds([c \in DOMAIN board |-> None]) = bd
        /\ op.name = "get_bounds" => op.result = bd
        /\ op.name = "setup_standard_position" => bd = <<0, 7, 0, 7>>

C5_Witness ==
    /\ op.name = "remove_cell"
    /\ op.result = TRUE
    /\ get_bounds(prev) = <<-1, 8, -2, 4>>
    /\ get_bounds(board) = <<0, 8, 0, 4>>

\* C6: whatever the board was, setup_standard_position leaves exactly the 64
\* cells of rows 0-7 and cols 0-7: row 0 the black back rank rook, knight,
\* bishop, queen, king, bishop, knight, rook, row 1 black pawns, row 6 white
\* pawns, row 7 the white back rank, rows 2-5 existing and empty.
C6_StandardPosition ==
    op.name = "setup_standard_position" =>
        LET rank == <<"rook", "knight", "bishop", "queen",
                      "king", "bishop", "knight", "rook">>
        IN  /\ get_all_cells(board) = (0..7) \X (0..7)
            /\ Cardinality(get_all_cells(board)) = 64
            /\ \A col \in 0..7 :
                  /\ IsKind(board[<<0, col>>], rank[col + 1], "black")
                  /\ IsKind(board[<<1, col>>], "pawn", "black")
                  /\ IsKind(board[<<6, col>>], "pawn", "white")
                  /\ IsKind(board[<<7, col>>], rank[col + 1], "white")
                  /\ \A row \in 2..5 : board[<<row, col>>] = None
            /\ IsKind(get_piece(board, 0, 0), "rook", "black")
            /\ IsKind(get_piece(board, 7, 4), "king", "white")
            /\ IsKind(get_piece(board, 1, 3), "pawn", "black")
            /\ get_piece(board, 2, 0) = None /\ cell_exists(board, 2, 0)

C6_Witness ==
    /\ op.name = "setup_standard_position"
    /\ \E c \in DOMAIN prev : c \notin (0..7) \X (0..7)
    /\ <<0, 0>> \in DOMAIN prev
    /\ ~IsKind(prev[<<0, 0>>], "rook", "black")

\* C7: whatever the board was, setup_irregular_example leaves exactly the 45
\* cells of 0..8 x 0..8 outside the four 3x3 corner blocks, and exactly five
\* of them occupied: (4,4) white king, (0,4) black queen, (8,4) white queen,
\* (4,0) black rook, (4,8) white rook.
C7_IrregularExample ==
    op.name = "setup_irregular_example" =>
        LET ends == {0, 1, 2, 6, 7, 8}
            cross == {c \in (0..8) \X (0..8) : ~(c[1] \in ends /\ c[2] \in ends)}
            occupied == {c \in DOMAIN board : board[c] # None}
        IN  /\ get_all_cells(board) = cross
            /\ Cardinality(get_all_cells(board)) = 45
            /\ occupied = {<<4, 4>>, <<0, 4>>, <<8, 4>>, <<4, 0>>, <<4, 8>>}
            /\ IsKind(get_piece(board, 4, 4), "king", "white")
            /\ IsKind(get_piece(board, 0, 4), "queen", "black")
            /\ IsKind(get_piece(board, 8, 4), "queen", "white")
            /\ IsKind(get_piece(board, 4, 0), "rook", "black")
            /\ IsKind(get_piece(board, 4, 8), "rook", "white")
            /\ ~cell_exists(board, 0, 0)
            /\ cell_exists(board, 0, 3)

C7_Witness ==
    /\ op.name = "setup_irregular_example"
    /\ <<0, 0>> \in DOMAIN prev
    /\ prev[<<0, 0>>] # None
    /\ \E c \in DOMAIN prev : c[1] < 0

\* C8: clear leaves no cell: get_all_cells is empty, every coordinate is a
\* hole with get_piece None, get_bounds is (0,0,0,0), and an add_cell after it
\* gives an empty cell, not a piece placed before.
C8_ClearEmpties ==
    op.name = "clear" =>
        /\ get_all_cells(board) = {}
        /\ \A c \in AllCoords :
              /\ ~cell_exists(board, c[1], c[2])
              /\ get_piece(board, c[1], c[2]) = None
              /\ add_cell(board, c[1], c[2]).board[c] = None
        /\ get_bounds(board) = <<0, 0, 0, 0>>

C8_Witness ==
    /\ op.name = "clear"
    /\ \E c \in EditCoords : c \in DOMAIN prev /\ prev[c] # None
    /\ get_bounds(prev) # <<0, 0, 0, 0>>

\* C9 as stated: no Piece object is held by two cells at once, none is shared
\* between the board and the caller, and once a cell is removed or overwritten
\* with another value the board keeps no reference to the piece it held.
C9_NoAliasing ==
    /\ \A c \in DOMAIN board : \A d \in DOMAIN board :
          (c # d /\ board[c] # None /\ board[d] # None) =>
              board[c].id # board[d].id
    /\ \A c \in DOMAIN board : \A p \in held :
          board[c] # None => board[c].id # p.id
    /\ (/\ op.name \in {"remove_cell", "set_piece"}
        /\ op.result = TRUE
        /\ prev[<<op.row, op.col>>] # None
        /\ get_piece(board, op.row, op.col) # prev[<<op.row, op.col>>]) =>
          prev[<<op.row, op.col>>].id \notin IdsOf(board, {})

\* the cells that hold a piece, and how many references to pieces the board
\* holds beyond one per object
Occupied(b) == {c \in DOMAIN b : b[c] # None}

Excess(b) ==
    Cardinality(Occupied(b)) - Cardinality({b[c].id : c \in Occupied(b)})

OnBoard(b, refs) == {p \in refs : \E c \in DOMAIN b : b[c] = p}

\* C9 as amended: set_piece stores the reference it is given, so a Piece
\* object is in two cells when the caller passes one that is already on the
\* board, and is shared with the caller when the caller keeps what it passed
\* or what get_piece returned. The board adds no reference of its own: no call
\* but set_piece brings an object to the board that was not there, adds a cell
\* to an object or makes a caller's object a board object; a successful
\* set_piece adds at most one reference, to the object passed; the pieces of a
\* setup routine are new objects, each in exactly one cell and none the
\* caller's; and when a cell is removed or overwritten with another value, a
\* piece that only this cell held is no longer referenced by the board.
C9_AliasOnlyByCaller ==
    /\ op.name \in {"add_cell", "remove_cell", "clear", "get_piece",
                    "cell_exists", "get_bounds", "get_all_cells", "Piece"} =>
          /\ IdsOf(board, {}) \subseteq IdsOf(prev, {})
          /\ Excess(board) <= Excess(prev)
          /\ op.name # "get_piece" =>
                OnBoard(board, held) \subseteq OnBoard(prev, held)
    /\ (op.name = "set_piece" /\ op.result = TRUE /\ op.piece # None) =>
          /\ IdsOf(board, {}) \subseteq IdsOf(prev, {}) \cup {op.piece.id}
          /\ Excess(board) <= Excess(prev) + 1
          /\ Excess(board) > Excess(prev) =>
                \E d \in DOMAIN prev : prev[d] = op.piece
          /\ OnBoard(board, held) \subseteq OnBoard(prev, held) \cup {op.piece}
    /\ (op.name = "set_piece" /\ (op.result = FALSE \/ op.piece = None)) =>
          /\ IdsOf(board, {}) \subseteq IdsOf(prev, {})
          /\ Excess(board) <= Excess(prev)
    /\ op.name \in {"setup_standard_position", "setup_irregular_example"} =>
          /\ Excess(board) = 0
          /\ OnBoard(board, held) = {}
          /\ IdsOf(board, {}) \cap IdsOf(EmptyBoard, held) = {}
    /\ (/\ op.name \in {"remove_cell", "set_piece"}
        /\ op.result = TRUE
        /\ prev[<<op.row, op.col>>] # None
        /\ get_piece(board, op.row, op.col) # prev[<<op.row, op.col>>]
        /\ \A d \in DOMAIN prev \ {<<op.row, op.col>>} :
              prev[d] # prev[<<op.row, op.col>>]) =>
          prev[<<op.row, op.col>>].id \notin IdsOf(board, {})

\* set_piece was given the object of another cell, which the caller does not
\* hold: the object is now in two cells
C9_Witness ==
    /\ op.name = "set_piece"
    /\ op.result = TRUE
    /\ op.piece # None
    /\ op.piece \notin held
    /\ board[<<op.row, op.col>>] = op.piece
    /\ \E d \in DOMAIN board \ {<<op.row, op.col>>} : board[d] = op.piece
    /\ Excess(board) = Excess(prev) + 1

\* the renaming of the objects when a call returns keeps the cells, the kind
\* of every piece, which cells share an object and what the caller holds
CanonKeeps ==
    [][(op # Idle /\ op' = Idle) =>
        LET kind(p) == IF p = None THEN <<>> ELSE <<p.piece_type, p.color>>
            cells(b, p) == {c \in DOMAIN b : b[c] = p}
        IN  /\ DOMAIN board' = DOMAIN board
            /\ \A c \in DOMAIN board : kind(board'[c]) = kind(board[c])
            /\ \A c \in EditCoords \cap DOMAIN board : \A d \in DOMAIN board :
                  (board[c] = board[d]) <=> (board'[c] = board'[d])
            /\ Excess(board') = Excess(board)
            /\ {<<kind(p), cells(board, p)>> : p \in held}
                  = {<<kind(p), cells(board', p)>> : p \in held'}
            /\ Cardinality(held') = Cardinality(held)]_vars

\* C10: str() of a Piece is defined and non-empty for each of the 2 x 6
\* (color, piece_type) pairs, two Pieces have the same glyph exactly when they
\* have the same pair (whichever objects they are), and the 12 glyphs are
\* pairwise distinct.
C10_SymbolsDistinct ==
    op.name = "__str__" =>
        /\ Len(op.result) > 0
        /\ \A q \in held :
              (__str__(q) = op.result) <=>
                  (q.color = op.self.color /\ q.piece_type = op.self.piece_type)
        /\ Cardinality({__str__(Piece(<<0>>, k[2], k[1])) :
                            k \in PieceColor \X PieceType}) = 12

C10_Witness ==
    /\ op.name = "__str__"
    /\ \E q \in held :
          /\ q.id # op.self.id
          /\ q.piece_type = op.self.piece_type
          /\ q.color # op.self.color

====
